---- MODULE Spec2Model ----
(***************************************************************************)
(* Accessibility-snapshot diffing and baseline management of               *)
(* chrome-devtools-mcp: src/utils/accessibilityDiff.ts (normalizer,        *)
(* canonicalizer, diff engine) and the take_change_snapshot handler of     *)
(* src/tools/snapshot.ts.                                                  *)
(***************************************************************************)
EXTENDS Integers, Sequences, FiniteSets, TLC

VARIABLES
    rawBase,    \* diff harness: the raw tree captured first (TextSnapshot.root)
    rawCur,     \* diff harness: the raw tree captured second
    nsBase,     \* diff harness: normalizeSnapshot(rawBase), or NoSnapshot
    nsCur,      \* diff harness: normalizeSnapshot(rawCur), or NoSnapshot
    result,     \* diff harness: diffSnapshots(nsBase, nsCur), or NoDiff
    stage,      \* diff harness: "off" | "input" | "normalized" | "diffed"
    now,        \* the wall clock read by new Date() in normalizeSnapshot
    page,       \* the accessibility tree of the selected page
    store,      \* the session's baselines: key -> NormalizedSnapshot
    pc,         \* per invocation of take_change_snapshot: "idle" | "awaiting" | "captured" | "done"
    locals,     \* per invocation: baselineKey, compareKey, replaceBaseline
    snapshot,   \* per invocation: what captureAccessibilitySnapshot resolved to
    response,   \* per invocation: the lines appended to its McpResponse
    captures    \* history: the trees captured by the invocations that returned,
                \* or, with two invocations in flight, their calls and returns

(***************************************************************************)
(* JavaScript values.  Every value is a record tagged with its typeof      *)
(* class, so that values of different types can be compared.               *)
(***************************************************************************)
Undefined == [t |-> "undefined"]
Null == [t |-> "null"]
NaN == [t |-> "nan"]
Str(s) == [t |-> "string", s |-> s]
Num(n) == [t |-> "number", n |-> n]
Bool(b) == [t |-> "boolean", b |-> b]
Arr(items) == [t |-> "array", items |-> items]
\* A plain object: its own enumerable properties, <<key, value>>, in insertion order.
Obj(entries) == [t |-> "object", entries |-> entries]

IsString(v) == v.t = "string"
IsNumber(v) == v.t \in {"number", "nan"}

\* Property tables (Record<string, unknown>) are sequences of <<key, value>>.
Keys(o) == [i \in 1..Len(o) |-> o[i][1]]
Has(o, k) == \E i \in 1..Len(o) : o[i][1] = k
Get(o, k) == IF Has(o, k) THEN o[CHOOSE i \in 1..Len(o) : o[i][1] = k][2] ELSE Undefined
\* o[k] = v: an existing key keeps its place, a new key is appended.
Put(o, k, v) ==
    IF Has(o, k)
    THEN [i \in 1..Len(o) |-> IF o[i][1] = k THEN <<k, v>> ELSE o[i]]
    ELSE Append(o, <<k, v>>)
KeySet(o) == {o[i][1] : i \in 1..Len(o)}

RECURSIVE Join(_, _)
\* Array.prototype.join on an array of strings.
Join(parts, sep) ==
    IF Len(parts) = 0 THEN ""
    ELSE IF Len(parts) = 1 THEN parts[1]
    ELSE parts[1] \o sep \o Join(Tail(parts), sep)

\* String(value) for the values of the model.
JsString(v) ==
    CASE v.t = "string" -> v.s
      [] v.t = "number" -> ToString(v.n)
      [] v.t = "nan" -> "NaN"
      [] v.t = "boolean" -> (IF v.b THEN "true" ELSE "false")
      [] v.t = "null" -> "null"
      [] v.t = "undefined" -> "undefined"
      [] OTHER -> "[object Object]"

\* The keys of object-valued attributes, in the order localeCompare gives them.
Collation == <<"level", "type", "value", "x", "y">>
KeyRank(k) == CHOOSE i \in 1..Len(Collation) : Collation[i] = k
localeCompare(a, b) == KeyRank(a) - KeyRank(b)

RECURSIVE InsertEntry(_, _)
InsertEntry(sorted, e) ==
    IF Len(sorted) = 0 THEN <<e>>
    ELSE IF localeCompare(e[1], sorted[Len(sorted)][1]) < 0
         THEN Append(InsertEntry(SubSeq(sorted, 1, Len(sorted) - 1), e), sorted[Len(sorted)])
         ELSE Append(sorted, e)

\* A sort that leaves the entries in the order they were listed.
SortEntriesAsListed(entries) == entries

RECURSIVE SortEntries(_)
\* entries.sort(([a], [b]) => a.localeCompare(b)): a stable sort by key.
SortEntries(entries) ==
    IF Len(entries) = 0 THEN <<>>
    ELSE InsertEntry(SortEntries(SubSeq(entries, 1, Len(entries) - 1)), entries[Len(entries)])

(***************************************************************************)
(* Canonicalizer                                                           *)
(***************************************************************************)
RECURSIVE sanitizeValue(_)
sanitizeValue(value) ==
    CASE value.t = "null" -> Null
      [] value.t \in {"string", "number", "nan", "boolean"} -> value
      [] value.t = "array" ->
            Arr([i \in 1..Len(value.items) |-> sanitizeValue(value.items[i])])
      [] value.t = "object" ->
            Obj(SortEntries([i \in 1..Len(value.entries) |->
                    <<value.entries[i][1], sanitizeValue(value.entries[i][2])>>]))
      [] OTHER -> Str(JsString(value))

RECURSIVE toComparable(_)
toComparable(value) ==
    CASE value.t = "array" ->
            Arr([i \in 1..Len(value.items) |-> toComparable(value.items[i])])
      [] value.t = "object" ->
            Obj(SortEntries([i \in 1..Len(value.entries) |->
                    <<value.entries[i][1], toComparable(value.entries[i][2])>>]))
      [] OTHER -> value

RECURSIVE JsonText(_)
\* The text JSON.stringify gives for a value other than undefined.  Inside an
\* array undefined is written null, inside an object its property is left out,
\* and NaN is written null.  The strings of the model need no escaping.
JsonText(v) ==
    CASE v.t = "null" -> "null"
      [] v.t = "nan" -> "null"
      [] v.t = "undefined" -> "null"
      [] v.t = "string" -> "\"" \o v.s \o "\""
      [] v.t = "number" -> ToString(v.n)
      [] v.t = "boolean" -> (IF v.b THEN "true" ELSE "false")
      [] v.t = "array" ->
            "[" \o Join([i \in 1..Len(v.items) |-> JsonText(v.items[i])], ",") \o "]"
      [] v.t = "object" ->
            LET kept == SelectSeq(v.entries, LAMBDA e : e[2].t # "undefined")
            IN "{" \o Join([i \in 1..Len(kept) |->
                        "\"" \o kept[i][1] \o "\":" \o JsonText(kept[i][2])], ",") \o "}"

\* JSON.stringify(value): undefined for undefined, a string otherwise.
JSONstringify(v) == IF v.t = "undefined" THEN Undefined ELSE Str(JsonText(v))

stableStringify(value) == JSONstringify(toComparable(value))

areEqual(a, b) == stableStringify(a) = stableStringify(b)

(***************************************************************************)
(* Snapshot normalizer.  A raw node is [props, children]: props are the    *)
(* node's own properties other than children, in insertion order.          *)
(***************************************************************************)
\* getStableNodeId whose fallback names the role, not the place.
getStableNodeIdByRole(node, path) ==
    LET backendDOMNodeId == Get(node.props, "backendDOMNodeId")
        nodeId == Get(node.props, "nodeId")
        axId == Get(node.props, "axId")
        identifiers ==
            (IF IsNumber(backendDOMNodeId)
                THEN <<"backend:" \o JsString(backendDOMNodeId)>> ELSE <<>>)
            \o (IF IsNumber(nodeId) THEN <<"node:" \o JsString(nodeId)>> ELSE <<>>)
            \o (IF IsString(axId) THEN <<"ax:" \o axId.s>> ELSE <<>>)
    IN IF Len(identifiers) > 0 THEN Join(identifiers, "|")
       ELSE "path:" \o JsString(Get(node.props, "role"))

\* getStableNodeId returning at the first hint it finds.
getStableNodeIdFirstHint(node, path) ==
    LET backendDOMNodeId == Get(node.props, "backendDOMNodeId")
        nodeId == Get(node.props, "nodeId")
        axId == Get(node.props, "axId")
    IN IF IsNumber(backendDOMNodeId) THEN "backend:" \o JsString(backendDOMNodeId)
       ELSE IF IsNumber(nodeId) THEN "node:" \o JsString(nodeId)
       ELSE IF IsString(axId) THEN "ax:" \o axId.s
       ELSE "path:" \o path

getStableNodeId(node, path) ==
    LET backendDOMNodeId == Get(node.props, "backendDOMNodeId")
        nodeId == Get(node.props, "nodeId")
        axId == Get(node.props, "axId")
        identifiers ==
            (IF IsNumber(backendDOMNodeId)
                THEN <<"backend:" \o JsString(backendDOMNodeId)>> ELSE <<>>)
            \o (IF IsNumber(nodeId) THEN <<"node:" \o JsString(nodeId)>> ELSE <<>>)
            \o (IF IsString(axId) THEN <<"ax:" \o axId.s>> ELSE <<>>)
    IN IF Len(identifiers) > 0 THEN Join(identifiers, "|") ELSE "path:" \o path

sanitizeNodeData(node) ==
    LET kept == SelectSeq(node.props,
                    LAMBDA e : e[1] # "id" /\ e[2].t # "undefined")
    IN [i \in 1..Len(kept) |-> <<kept[i][1], sanitizeValue(kept[i][2])>>]

normalizeName(value) ==
    IF IsString(value) THEN value
    ELSE IF IsNumber(value) THEN Str(JsString(value))
    ELSE IF value.t = "object" /\ Has(value.entries, "value")
              /\ (IsString(Get(value.entries, "value")) \/ IsNumber(Get(value.entries, "value")))
         THEN Str(JsString(Get(value.entries, "value")))
    ELSE Undefined

RECURSIVE traverse(_, _, _, _)
RECURSIVE traverseChildren(_, _, _, _, _)
\* traverse returns the nodes table it was given with the subtree of node written in.
traverse(node, pathSegments, parentId, nodes) ==
    LET path == Join(pathSegments, ".")
        id == getStableNodeId(node, path)
        data == sanitizeNodeData(node)
        normalized ==
            [id |-> id,
             path |-> path,
             role |-> IF IsString(Get(data, "role")) THEN Get(data, "role") ELSE Undefined,
             name |-> IF IsString(Get(data, "name")) THEN Get(data, "name")
                      ELSE normalizeName(Get(data, "name")),
             data |-> data,
             parentId |-> parentId]
    IN traverseChildren(node.children, 1, pathSegments, id, Put(nodes, id, normalized))

\* node.children?.forEach((child, index) => traverse(child, [...pathSegments, String(index)], id, nodes))
traverseChildren(children, i, pathSegments, id, nodes) ==
    IF i > Len(children) THEN nodes
    ELSE traverseChildren(children, i + 1, pathSegments, id,
            traverse(children[i], Append(pathSegments, ToString(i - 1)), Str(id), nodes))

\* normalizeSnapshot stamping every snapshot with the epoch, new Date(0).
normalizeSnapshotEpoch(root, date) ==
    [capturedAt |-> 0, nodes |-> traverse(root, <<"0">>, Undefined, <<>>)]

\* normalizeSnapshot(snapshot) with the reading of the clock made explicit.
normalizeSnapshot(root, date) ==
    [capturedAt |-> date, nodes |-> traverse(root, <<"0">>, Undefined, <<>>)]

(***************************************************************************)
(* Diff engine                                                             *)
(***************************************************************************)
\* diffNode comparing the values with !== : two objects are never the same object.
diffNodeByIdentity(baseline, current) ==
    LET fresh == SelectSeq(Keys(current.data), LAMBDA k : ~Has(baseline.data, k))
        keys == Keys(baseline.data) \o fresh
        differing == SelectSeq(keys,
                        LAMBDA k : \/ Get(baseline.data, k) # Get(current.data, k)
                                   \/ Get(baseline.data, k).t \in {"object", "array", "nan"})
    IN [i \in 1..Len(differing) |->
            [property |-> differing[i],
             before |-> Get(baseline.data, differing[i]),
             after |-> Get(current.data, differing[i])]]

\* diffNode walking the keys of the baseline only.
diffNodeBaselineKeys(baseline, current) ==
    LET keys == Keys(baseline.data)
        differing == SelectSeq(keys,
                        LAMBDA k : ~areEqual(Get(baseline.data, k), Get(current.data, k)))
    IN [i \in 1..Len(differing) |->
            [property |-> differing[i],
             before |-> Get(baseline.data, differing[i]),
             after |-> Get(current.data, differing[i])]]

\* diffNode walking only the keys the two nodes share.
diffNodeCommonKeys(baseline, current) ==
    LET keys == SelectSeq(Keys(baseline.data), LAMBDA k : Has(current.data, k))
        differing == SelectSeq(keys,
                        LAMBDA k : ~areEqual(Get(baseline.data, k), Get(current.data, k)))
    IN [i \in 1..Len(differing) |->
            [property |-> differing[i],
             before |-> Get(baseline.data, differing[i]),
             after |-> Get(current.data, differing[i])]]

diffNode(baseline, current) ==
    LET fresh == SelectSeq(Keys(current.data), LAMBDA k : ~Has(baseline.data, k))
        keys == Keys(baseline.data) \o fresh
        differing == SelectSeq(keys,
                        LAMBDA k : ~areEqual(Get(baseline.data, k), Get(current.data, k)))
    IN [i \in 1..Len(differing) |->
            [property |-> differing[i],
             before |-> Get(baseline.data, differing[i]),
             after |-> Get(current.data, differing[i])]]

\* diffSnapshots whose second loop looks the id up in the baseline it walks.
diffSnapshotsNoRemoved(baseline, current) ==
    LET addedEntries == SelectSeq(current.nodes, LAMBDA e : ~Has(baseline.nodes, e[1]))
        changedEntries == SelectSeq(current.nodes,
                LAMBDA e : Has(baseline.nodes, e[1])
                           /\ Len(diffNode(Get(baseline.nodes, e[1]), e[2])) > 0)
        change(e) ==
            LET previousNode == Get(baseline.nodes, e[1])
                currentNode == e[2]
            IN [id |-> e[1],
                path |-> currentNode.path,
                role |-> IF currentNode.role.t \in {"undefined", "null"}
                            THEN previousNode.role ELSE currentNode.role,
                name |-> IF currentNode.name.t \in {"undefined", "null"}
                            THEN previousNode.name ELSE currentNode.name,
                changes |-> diffNode(previousNode, currentNode)]
    IN [added |-> [i \in 1..Len(addedEntries) |-> addedEntries[i][2]],
        removed |-> <<>>,
        changed |-> [i \in 1..Len(changedEntries) |-> change(changedEntries[i])]]

diffSnapshots(baseline, current) ==
    LET addedEntries == SelectSeq(current.nodes, LAMBDA e : ~Has(baseline.nodes, e[1]))
        changedEntries == SelectSeq(current.nodes,
                LAMBDA e : Has(baseline.nodes, e[1])
                           /\ Len(diffNode(Get(baseline.nodes, e[1]), e[2])) > 0)
        removedEntries == SelectSeq(baseline.nodes, LAMBDA e : ~Has(current.nodes, e[1]))
        change(e) ==
            LET previousNode == Get(baseline.nodes, e[1])
                currentNode == e[2]
            IN [id |-> e[1],
                path |-> currentNode.path,
                role |-> IF currentNode.role.t \in {"undefined", "null"}
                            THEN previousNode.role ELSE currentNode.role,
                name |-> IF currentNode.name.t \in {"undefined", "null"}
                            THEN previousNode.name ELSE currentNode.name,
                changes |-> diffNode(previousNode, currentNode)]
    IN [added |-> [i \in 1..Len(addedEntries) |-> addedEntries[i][2]],
        removed |-> [i \in 1..Len(removedEntries) |-> removedEntries[i][2]],
        changed |-> [i \in 1..Len(changedEntries) |-> change(changedEntries[i])]]

hasSnapshotChanges(diff) ==
    Len(diff.added) > 0 \/ Len(diff.removed) > 0 \/ Len(diff.changed) > 0

(***************************************************************************)
(* Inputs of the diff harness: raw accessibility trees.                    *)
(***************************************************************************)
MaxNodes == 3       \* nodes of a tree of the single-capture family
MaxKids == 2        \* children of the root in the two-capture family
MaxClock == 2       \* readings of the clock
MaxCalls == 3       \* invocations of a moving-baseline session
MaxItems == 3       \* elements of an array-valued attribute
MaxPairCalls == 2   \* invocations of a session with two invocations in flight

Button(pressed) ==
    << <<"role", Str("button")>>, <<"name", Str("Toggle")>>, <<"pressed", Str(pressed)>> >>

\* Nodes without identity hint; the raw uid ("id") differs from capture to capture.
PlainOff == << <<"id", Str("1_1")>> >> \o Button("false")
PlainOn ==
    << <<"id", Str("2_1")>> >> \o Button("true")
        \o << <<"state", Obj(<< <<"value", Str("on")>>, <<"type", Str("tristate")>> >>)>> >>
\* Nodes with the same backend DOM identifier.
BackendOff == << <<"backendDOMNodeId", Num(1)>> >> \o Button("false")
BackendOn == << <<"backendDOMNodeId", Num(1)>> >> \o Button("true") \o << <<"focused", Bool(TRUE)>> >>
\* All three hints, a name held in a value object, an undefined attribute.
Alert ==
    << <<"backendDOMNodeId", Num(1)>>, <<"nodeId", Num(2)>>, <<"axId", Str("a")>>,
       <<"role", Str("alert")>>, <<"description", Undefined>>,
       <<"name", Obj(<< <<"value", Str("New message")>>, <<"type", Str("computedString")>> >>)>> >>
\* Hints of the wrong type are attributes, not hints; nested and odd values.
Log ==
    << <<"nodeId", Str("2")>>, <<"axId", Str("a")>>, <<"role", Str("log")>>, <<"name", Num(7)>>,
       <<"level", NaN>>,
       <<"live", Arr(<<Obj(<< <<"y", Null>>, <<"x", Undefined>> >>), Bool(FALSE)>>)>> >>

RootProps == {PlainOff, BackendOn}
PairProps == {PlainOff, PlainOn, BackendOff, BackendOn, Alert}
NodeProps == PairProps \cup {Log}

Node(props, children) == [props |-> props, children |-> children]

RECURSIVE TreesOfSize(_, _)
RECURSIVE ForestsOfSize(_, _)
\* The trees of exactly n nodes with properties from P, and the sequences of
\* trees of m nodes in all.
TreesOfSize(P, n) ==
    IF n < 1 THEN {} ELSE {Node(p, f) : p \in P, f \in ForestsOfSize(P, n - 1)}
ForestsOfSize(P, m) ==
    IF m = 0 THEN {<<>>}
    ELSE UNION {{<<t>> \o f : t \in TreesOfSize(P, k), f \in ForestsOfSize(P, m - k)} : k \in 1..m}

SingleTrees == UNION {TreesOfSize(NodeProps, n) : n \in 1..MaxNodes}

RECURSIVE LeafSeqs(_, _)
LeafSeqs(P, n) ==
    IF n = 0 THEN {<<>>} ELSE {<<Node(p, <<>>)>> \o s : p \in P, s \in LeafSeqs(P, n - 1)}
\* A root and up to MaxKids leaves.
PairTrees == {Node(p, kids) : p \in RootProps, kids \in UNION {LeafSeqs(PairProps, n) : n \in 0..MaxKids}}

\* children with the elements at i and j exchanged.
SwapAt(children, i, j) ==
    [k \in 1..Len(children) |->
        IF k = i THEN children[j] ELSE IF k = j THEN children[i] ELSE children[k]]

RECURSIVE SiblingSwaps(_)
\* The trees that one exchange of two siblings, anywhere in the tree, makes of it.
SiblingSwaps(node) ==
    ({Node(node.props, SwapAt(node.children, i, j)) :
        i \in 1..Len(node.children), j \in 1..Len(node.children)} \ {node})
    \cup UNION {{Node(node.props, [node.children EXCEPT ![i] = sub]) :
                    sub \in SiblingSwaps(node.children[i])} : i \in 1..Len(node.children)}

\* The arrangements of a sequence.
PermsOf(seq) ==
    IF Len(seq) = 0 THEN {<<>>}
    ELSE {[i \in 1..Len(seq) |-> seq[f[i]]] : f \in Permutations(1..Len(seq))}

RECURSIVE SeqProduct(_)
\* The sequences that take their i-th element from the i-th set.
SeqProduct(sets) ==
    IF Len(sets) = 0 THEN {<<>>}
    ELSE {<<x>> \o rest : x \in Head(sets), rest \in SeqProduct(Tail(sets))}

RECURSIVE KeyOrders(_)
\* The values that list the keys of the objects of value, at any depth, in
\* another order, and are the same otherwise.
KeyOrders(value) ==
    CASE value.t = "array" ->
            {Arr(items) : items \in SeqProduct([i \in 1..Len(value.items) |->
                                                    KeyOrders(value.items[i])])}
      [] value.t = "object" ->
            UNION {{Obj([i \in 1..Len(es) |-> <<es[i][1], vs[i]>>]) :
                        vs \in SeqProduct([i \in 1..Len(es) |-> KeyOrders(es[i][2])])} :
                    es \in PermsOf(value.entries)}
      [] OTHER -> {value}

\* The array values that list the elements of value in another order.
ArrayOrders(value) == {Arr(items) : items \in PermsOf(value.items)} \ {value}

\* Attribute values: arrays of scalars and objects, and a nested object.
Items == {NaN, Null, Num(1), Obj(<< <<"y", Null>>, <<"x", Undefined>> >>)}
ArrayValues == UNION {{Arr(items) : items \in [1..n -> Items]} : n \in 1..MaxItems}
Nested ==
    Obj(<< <<"x", Arr(<<Obj(<< <<"value", Num(1)>>, <<"level", Str("1")>> >>)>>)>>,
           <<"type", Obj(<< <<"y", Bool(TRUE)>>, <<"x", Undefined>> >>)>> >>)

\* A hint-less root with an array-valued attribute and a child with an
\* object-valued one.
OrderTree(live, state) ==
    Node(PlainOff \o << <<"live", live>> >>,
         <<Node(BackendOff \o << <<"state", state>> >>, <<>>)>>)
OrderTrees == {OrderTree(live, Nested) : live \in ArrayValues}

\* tree captured again with nothing but key orders changed.
KeyReorderings(tree) ==
    {OrderTree(live, state) :
        live \in KeyOrders(Get(tree.props, "live")),
        state \in KeyOrders(Get(tree.children[1].props, "state"))}

\* tree captured again with the elements of the root's array rearranged.
ArrayReorderings(tree) ==
    {OrderTree(live, Get(tree.children[1].props, "state")) :
        live \in ArrayOrders(Get(tree.props, "live"))}

\* Nodes with every combination of identity hints, present, absent or of a
\* type that does not count.
HintProps ==
    {(IF b = Undefined THEN <<>> ELSE << <<"backendDOMNodeId", b>> >>)
        \o (IF n = Undefined THEN <<>> ELSE << <<"nodeId", n>> >>)
        \o (IF a = Undefined THEN <<>> ELSE << <<"axId", a>> >>)
        \o << <<"role", Str("button")>> >> :
        b \in {Undefined, Num(1), Num(2), Str("1")},
        n \in {Undefined, Num(1), NaN},
        a \in {Undefined, Str("a"), Str("1"), Num(7)}}
\* A root and a child.
HintTrees == {Node(p, <<Node(q, <<>>)>>) : p \in HintProps, q \in HintProps}

NoSnapshot == [capturedAt |-> -1, nodes |-> <<>>]
NoDiff == [added |-> <<>>, removed |-> <<>>, changed |-> <<>>]
EmptyTree == Node(<<>>, <<>>)

(***************************************************************************)
(* take_change_snapshot                                                    *)
(***************************************************************************)
RECURSIVE trimStart(_)
trimStart(s) == IF Len(s) > 0 /\ SubSeq(s, 1, 1) = " " THEN trimStart(SubSeq(s, 2, Len(s))) ELSE s
RECURSIVE trimEnd(_)
trimEnd(s) ==
    IF Len(s) > 0 /\ SubSeq(s, Len(s), Len(s)) = " " THEN trimEnd(SubSeq(s, 1, Len(s) - 1)) ELSE s
\* String.prototype.trim
trim(s) == trimEnd(trimStart(s))

\* param || fallback, the trim forgotten
TrimOrUntrimmed(param, fallback) ==
    IF param.t = "undefined" THEN fallback
    ELSE IF param.s = "" THEN fallback ELSE param.s

\* param?.trim() || fallback
TrimOr(param, fallback) ==
    IF param.t = "undefined" THEN fallback
    ELSE IF trim(param.s) = "" THEN fallback ELSE trim(param.s)

\* The session's baseline map; NoSnapshot stands for the undefined of a missing key.
getAccessibilityBaseline(baselines, key) ==
    IF key \in DOMAIN baselines THEN baselines[key] ELSE NoSnapshot
setAccessibilityBaseline(baselines, key, value) ==
    [k \in DOMAIN baselines \cup {key} |-> IF k = key THEN value ELSE baselines[k]]

formatNodeSummary(node) ==
    LET role == IF IsString(node.role) /\ node.role.s # ""
                    THEN "[" \o node.role.s \o "]" ELSE "[unknown role]"
        name == IF IsString(node.name) /\ node.name.s # ""
                    THEN " \"" \o node.name.s \o "\"" ELSE ""
    IN role \o name \o " at path " \o node.path

formatChangeSummary(change) == formatNodeSummary(change)

formatDiffValue(value) ==
    IF value.t \in {"null", "undefined"} THEN JsString(value)
    ELSE IF value.t = "string" THEN JsonText(value)
    ELSE IF value.t \in {"number", "nan", "boolean"} THEN JsString(value)
    ELSE JsonText(value)

RECURSIVE Flatten(_)
Flatten(seqs) == IF Len(seqs) = 0 THEN <<>> ELSE Head(seqs) \o Flatten(Tail(seqs))

NoChangesLine(compareKey) ==
    "No accessibility changes compared to baseline \"" \o compareKey \o "\"."

\* The lines the handler appends once it has a diff.
ReportLines(compareKey, diff) ==
    IF ~hasSnapshotChanges(diff)
    THEN <<NoChangesLine(compareKey)>>
    ELSE <<"Accessibility changes compared to baseline \"" \o compareKey \o "\":",
           "Added nodes: " \o ToString(Len(diff.added))
               \o ", Removed nodes: " \o ToString(Len(diff.removed))
               \o ", Changed nodes: " \o ToString(Len(diff.changed))>>
         \o (IF Len(diff.added) > 0
             THEN <<"## Added">> \o [i \in 1..Len(diff.added) |->
                                        "- " \o formatNodeSummary(diff.added[i])]
             ELSE <<>>)
         \o (IF Len(diff.removed) > 0
             THEN <<"## Removed">> \o [i \in 1..Len(diff.removed) |->
                                        "- " \o formatNodeSummary(diff.removed[i])]
             ELSE <<>>)
         \o (IF Len(diff.changed) > 0
             THEN <<"## Changed">> \o Flatten([i \in 1..Len(diff.changed) |->
                    <<"- " \o formatChangeSummary(diff.changed[i])>>
                    \o [j \in 1..Len(diff.changed[i].changes) |->
                        "  - " \o diff.changed[i].changes[j].property \o ": "
                            \o formatDiffValue(diff.changed[i].changes[j].before) \o " -> "
                            \o formatDiffValue(diff.changed[i].changes[j].after)]])
             ELSE <<>>)

CaptureFailedLine == "Unable to capture accessibility snapshot for the current page."
CreatedLine(compareKey) ==
    "No baseline found for key \"" \o compareKey
        \o "\". Created a baseline with the current snapshot."

Procs == {1}
NoCapture == [ok |-> FALSE, root |-> EmptyTree]
NoLocals == [baselineKey |-> "", compareKey |-> "", replaceBaseline |-> TRUE]

\* What the page can show.
Page0 == Node(PlainOff, <<Node(BackendOff, <<>>)>>)
Page1 == Node(PlainOff, <<Node(BackendOn, <<>>), Node(Alert, <<>>)>>)
Page2 == Node(PlainOn, <<>>)
Pages == {Page0, Page1, Page2}

\* The request parameters a caller can give.
KeyParams == {Undefined, Str("  "), Str(" a ")}
CompareParams == {Undefined, Str(""), Str("a"), Str("default ")}
ReplaceParams == {Undefined, Bool(TRUE), Bool(FALSE)}

\* handler, up to the await of the capture
Invoke(p, baselineKeyParam, compareToParam, replaceParam) ==
    /\ pc[p] \in {"idle", "done"}
    /\ LET baselineKey == TrimOr(baselineKeyParam, "default")
           compareKey == TrimOr(compareToParam, baselineKey)
           replaceBaseline == IF replaceParam.t = "undefined" THEN TRUE ELSE replaceParam.b
       IN locals' = [locals EXCEPT ![p] =
                        [baselineKey |-> baselineKey, compareKey |-> compareKey,
                         replaceBaseline |-> replaceBaseline]]
    /\ pc' = [pc EXCEPT ![p] = "awaiting"]
    /\ snapshot' = [snapshot EXCEPT ![p] = NoCapture]
    /\ response' = [response EXCEPT ![p] = <<>>]
    /\ UNCHANGED <<page, store, now>>

\* context.captureAccessibilitySnapshot() resolves: the tree of the page, or nothing.
Capture(p) ==
    /\ pc[p] = "awaiting"
    /\ snapshot' \in {[snapshot EXCEPT ![p] = [ok |-> TRUE, root |-> page]],
                      [snapshot EXCEPT ![p] = NoCapture]}
    /\ pc' = [pc EXCEPT ![p] = "captured"]
    /\ UNCHANGED <<page, store, now, locals, response>>

\* StoreAfter with the early return on a failed capture missing.
StoreAfterNoGuard(baselines, l, snap, date) ==
    LET normalizedSnapshot == normalizeSnapshot(snap.root, date)
    IN IF getAccessibilityBaseline(baselines, l.compareKey) = NoSnapshot
       THEN setAccessibilityBaseline(baselines, l.baselineKey, normalizedSnapshot)
       ELSE IF l.replaceBaseline
            THEN setAccessibilityBaseline(baselines, l.baselineKey, normalizedSnapshot)
            ELSE baselines

\* StoreAfter that reports the creation of a baseline without storing it.
StoreAfterNoCreate(baselines, l, snap, date) ==
    IF ~snap.ok THEN baselines
    ELSE LET normalizedSnapshot == normalizeSnapshot(snap.root, date)
         IN IF getAccessibilityBaseline(baselines, l.compareKey) = NoSnapshot
            THEN baselines
            ELSE IF l.replaceBaseline
                 THEN setAccessibilityBaseline(baselines, l.baselineKey, normalizedSnapshot)
                 ELSE baselines

\* StoreAfter with the test of replaceBaseline inverted.
StoreAfterNoReplace(baselines, l, snap, date) ==
    IF ~snap.ok THEN baselines
    ELSE LET normalizedSnapshot == normalizeSnapshot(snap.root, date)
         IN IF getAccessibilityBaseline(baselines, l.compareKey) = NoSnapshot
            THEN setAccessibilityBaseline(baselines, l.baselineKey, normalizedSnapshot)
            ELSE IF ~l.replaceBaseline
                 THEN setAccessibilityBaseline(baselines, l.baselineKey, normalizedSnapshot)
                 ELSE baselines

\* StoreAfter dropping the baseline of the key when the capture fails.
StoreAfterDropOnFailure(baselines, l, snap, date) ==
    IF ~snap.ok THEN [k \in DOMAIN baselines \ {l.baselineKey} |-> baselines[k]]
    ELSE LET normalizedSnapshot == normalizeSnapshot(snap.root, date)
         IN IF getAccessibilityBaseline(baselines, l.compareKey) = NoSnapshot
            THEN setAccessibilityBaseline(baselines, l.baselineKey, normalizedSnapshot)
            ELSE IF l.replaceBaseline
                 THEN setAccessibilityBaseline(baselines, l.baselineKey, normalizedSnapshot)
                 ELSE baselines

\* StoreAfter replacing the baseline that was compared against.
StoreAfterUnderCompareKey(baselines, l, snap, date) ==
    IF ~snap.ok THEN baselines
    ELSE LET normalizedSnapshot == normalizeSnapshot(snap.root, date)
         IN IF getAccessibilityBaseline(baselines, l.compareKey) = NoSnapshot
            THEN setAccessibilityBaseline(baselines, l.baselineKey, normalizedSnapshot)
            ELSE IF l.replaceBaseline
                 THEN setAccessibilityBaseline(baselines, l.compareKey, normalizedSnapshot)
                 ELSE baselines

\* StoreAfter creating the missing baseline under the key it looked up.
StoreAfterCreateUnderCompareKey(baselines, l, snap, date) ==
    IF ~snap.ok THEN baselines
    ELSE LET normalizedSnapshot == normalizeSnapshot(snap.root, date)
         IN IF getAccessibilityBaseline(baselines, l.compareKey) = NoSnapshot
            THEN setAccessibilityBaseline(baselines, l.compareKey, normalizedSnapshot)
            ELSE IF l.replaceBaseline
                 THEN setAccessibilityBaseline(baselines, l.baselineKey, normalizedSnapshot)
                 ELSE baselines

\* The store the handler leaves, from the await to its return.
StoreAfter(baselines, l, snap, date) ==
    IF ~snap.ok THEN baselines
    ELSE LET normalizedSnapshot == normalizeSnapshot(snap.root, date)
         IN IF getAccessibilityBaseline(baselines, l.compareKey) = NoSnapshot
            THEN setAccessibilityBaseline(baselines, l.baselineKey, normalizedSnapshot)
            ELSE IF l.replaceBaseline
                 THEN setAccessibilityBaseline(baselines, l.baselineKey, normalizedSnapshot)
                 ELSE baselines

\* The lines the handler appends, from the await to its return.
LinesAfter(baselines, l, snap, date) ==
    IF ~snap.ok THEN <<CaptureFailedLine>>
    ELSE IF getAccessibilityBaseline(baselines, l.compareKey) = NoSnapshot THEN <<CreatedLine(l.compareKey)>>
    ELSE ReportLines(l.compareKey,
            diffSnapshots(getAccessibilityBaseline(baselines, l.compareKey),
                          normalizeSnapshot(snap.root, date)))

\* handler, from the await to its return: one synchronous run
Resume(p) ==
    /\ pc[p] = "captured"
    /\ store' = StoreAfter(store, locals[p], snapshot[p], now)
    /\ response' = [response EXCEPT ![p] = LinesAfter(store, locals[p], snapshot[p], now)]
    /\ pc' = [pc EXCEPT ![p] = "done"]
    /\ UNCHANGED <<page, now, locals, snapshot>>

\* The page changes under the session.
PageChange ==
    /\ page' \in Pages \ {page}
    /\ UNCHANGED <<store, now, pc, locals, snapshot, response>>

Tick ==
    /\ now < MaxClock
    /\ now' = now + 1
    /\ UNCHANGED <<page, store, pc, locals, snapshot, response>>

sessionVars == <<page, store, pc, locals, snapshot, response, captures>>
harnessVars == <<rawBase, rawCur, nsBase, nsCur, result, stage>>
vars == <<rawBase, rawCur, nsBase, nsCur, result, stage, now, page, store, pc, locals,
          snapshot, response, captures>>

EmptyStore == [k \in {} |-> NoSnapshot]

InitSession ==
    /\ page \in Pages
    /\ store = EmptyStore
    /\ captures = <<>>
    /\ pc = [p \in Procs |-> "idle"]
    /\ locals = [p \in Procs |-> NoLocals]
    /\ snapshot = [p \in Procs |-> NoCapture]
    /\ response = [p \in Procs |-> <<>>]

InitHarnessOff ==
    /\ rawBase = EmptyTree
    /\ rawCur = EmptyTree
    /\ nsBase = NoSnapshot
    /\ nsCur = NoSnapshot
    /\ result = NoDiff
    /\ stage = "off"

\* A session: the tool is invoked again and again while the page changes.
Init == InitSession /\ InitHarnessOff /\ now = 0

Next ==
    \/ \E p \in Procs, b \in KeyParams, c \in CompareParams, r \in ReplaceParams :
            Invoke(p, b, c, r) /\ UNCHANGED <<harnessVars, captures>>
    \/ \E p \in Procs : Capture(p) /\ UNCHANGED <<harnessVars, captures>>
    \/ \E p \in Procs : Resume(p) /\ UNCHANGED <<harnessVars, captures>>
    \/ PageChange /\ UNCHANGED <<harnessVars, captures>>
    \/ Tick /\ UNCHANGED <<harnessVars, captures>>

Spec == Init /\ [][Next]_vars

\* A moving-baseline session: every invocation names the same baseline key,
\* omits compareTo and replaceBaseline, and every capture succeeds.
NextMoving ==
    \/ \E p \in Procs, b \in KeyParams :
            /\ Len(captures) < MaxCalls
            /\ pc[p] = "done" => TrimOr(b, "default") = locals[p].baselineKey
            /\ Invoke(p, b, Undefined, Undefined)
            /\ UNCHANGED <<harnessVars, captures>>
    \/ \E p \in Procs : Capture(p) /\ snapshot'[p].ok /\ UNCHANGED <<harnessVars, captures>>
    \/ \E p \in Procs :
            Resume(p) /\ captures' = Append(captures, snapshot[p].root) /\ UNCHANGED harnessVars
    \/ PageChange /\ UNCHANGED <<harnessVars, captures>>
    \/ Tick /\ UNCHANGED <<harnessVars, captures>>

SpecMoving == Init /\ [][NextMoving]_vars

\* A session in which every invocation names the same baseline key and the
\* same, other, compare key; captures succeed or fail.
NextMissing ==
    \/ \E p \in Procs, b \in KeyParams, c \in CompareParams, r \in ReplaceParams :
            /\ Len(captures) < MaxCalls
            /\ TrimOr(c, TrimOr(b, "default")) # TrimOr(b, "default")
            /\ pc[p] = "done" =>
                    /\ TrimOr(b, "default") = locals[p].baselineKey
                    /\ TrimOr(c, TrimOr(b, "default")) = locals[p].compareKey
            /\ Invoke(p, b, c, r)
            /\ UNCHANGED <<harnessVars, captures>>
    \/ \E p \in Procs : Capture(p) /\ UNCHANGED <<harnessVars, captures>>
    \/ \E p \in Procs :
            Resume(p) /\ captures' = Append(captures, snapshot[p].root) /\ UNCHANGED harnessVars
    \/ PageChange /\ UNCHANGED <<harnessVars, captures>>
    \/ Tick /\ UNCHANGED <<harnessVars, captures>>

SpecMissing == Init /\ [][NextMissing]_vars

(***************************************************************************)
(* Two invocations in flight on one event loop.  The part of the handler   *)
(* after the await is taken statement by statement: the lookup of the      *)
(* baseline, then the writes.  A step is taken only while no other         *)
(* invocation is on the call stack.                                        *)
(***************************************************************************)
Pair == {1, 2}

\* A handler with one more await, between the lookup and the writes.
OffStackAfterLookup(position) == position \in {"idle", "awaiting", "captured", "looked", "done"}

\* The positions at which an invocation is not on the call stack: not
\* called, pending on the capture, queued to resume, returned.
OffStack(position) == position \in {"idle", "awaiting", "captured", "done"}

StackFree(p) == \A q \in Pair \ {p} : OffStack(pc[q])

\* The entries of the history of a session of two invocations.
Called(p) == <<"call", p>>
Returned(p) == <<"return", p>>
CallsMade == Cardinality({i \in 1..Len(captures) : captures[i][1] = "call"})

\* The tool is called: the handler runs to its await.
Call(p, baselineKeyParam, compareToParam, replaceParam) ==
    /\ StackFree(p)
    /\ CallsMade < MaxPairCalls
    /\ Invoke(p, baselineKeyParam, compareToParam, replaceParam)
    /\ captures' = Append(captures, Called(p))

\* The capture of p settles; its continuation is queued.
Settle(p) ==
    /\ StackFree(p)
    /\ Capture(p)
    /\ UNCHANGED captures

\* handler, from the await to the lookup of the baseline
Lookup(p) ==
    /\ pc[p] = "captured"
    /\ StackFree(p)
    /\ IF ~snapshot[p].ok
       THEN /\ response' = [response EXCEPT ![p] = <<CaptureFailedLine>>]
            /\ pc' = [pc EXCEPT ![p] = "done"]
            /\ captures' = Append(captures, Returned(p))
            /\ UNCHANGED locals
       ELSE /\ locals' = [locals EXCEPT ![p] =
                    [baselineKey |-> locals[p].baselineKey,
                     compareKey |-> locals[p].compareKey,
                     replaceBaseline |-> locals[p].replaceBaseline,
                     normalizedSnapshot |-> normalizeSnapshot(snapshot[p].root, now),
                     baseline |-> getAccessibilityBaseline(store, locals[p].compareKey)]]
            /\ pc' = [pc EXCEPT ![p] = "looked"]
            /\ UNCHANGED <<response, captures>>
    /\ UNCHANGED <<page, store, now, snapshot>>

\* What the handler writes once it holds the baseline it looked up.
StoreWritten(baselines, l) ==
    IF l.baseline = NoSnapshot
    THEN setAccessibilityBaseline(baselines, l.baselineKey, l.normalizedSnapshot)
    ELSE IF l.replaceBaseline
         THEN setAccessibilityBaseline(baselines, l.baselineKey, l.normalizedSnapshot)
         ELSE baselines

LinesReported(l) ==
    IF l.baseline = NoSnapshot THEN <<CreatedLine(l.compareKey)>>
    ELSE ReportLines(l.compareKey, diffSnapshots(l.baseline, l.normalizedSnapshot))

\* handler, from the lookup of the baseline to its return
Finish(p) ==
    /\ pc[p] = "looked"
    /\ StackFree(p)
    /\ store' = StoreWritten(store, locals[p])
    /\ response' = [response EXCEPT ![p] = LinesReported(locals[p])]
    /\ pc' = [pc EXCEPT ![p] = "done"]
    /\ captures' = Append(captures, Returned(p))
    /\ UNCHANGED <<page, now, locals, snapshot>>

\* What the page shows, and the parameters given, while two invocations run.
PairPages == {Page0, Page1}
PairKeyParams == {Undefined, Str(" a ")}
PairCompareParams == {Undefined, Str("a")}
PairReplaceParams == {Undefined, Bool(FALSE)}

PairPageChange ==
    /\ page' \in PairPages \ {page}
    /\ UNCHANGED <<store, now, pc, locals, snapshot, response>>

InitPair ==
    /\ page \in PairPages
    /\ store = EmptyStore
    /\ captures = <<>>
    /\ pc = [p \in Pair |-> "idle"]
    /\ locals = [p \in Pair |-> NoLocals]
    /\ snapshot = [p \in Pair |-> NoCapture]
    /\ response = [p \in Pair |-> <<>>]
    /\ InitHarnessOff
    /\ now = 0

NextPair ==
    \/ \E p \in Pair, b \in PairKeyParams, c \in PairCompareParams, r \in PairReplaceParams :
            Call(p, b, c, r) /\ UNCHANGED harnessVars
    \/ \E p \in Pair : Settle(p) /\ UNCHANGED harnessVars
    \/ \E p \in Pair : Lookup(p) /\ UNCHANGED harnessVars
    \/ \E p \in Pair : Finish(p) /\ UNCHANGED harnessVars
    \/ PairPageChange /\ UNCHANGED <<harnessVars, captures>>

SpecPair == InitPair /\ [][NextPair]_vars

\* The diff harness: two captures are normalized and compared.  The captures
\* are two unrelated small trees, or one tree captured twice, unchanged or
\* with two siblings exchanged in between.
InitDiff ==
    /\ \/ rawBase \in PairTrees /\ rawCur \in PairTrees
       \/ rawBase \in SingleTrees /\ rawCur \in {rawBase} \cup SiblingSwaps(rawBase)
    /\ nsBase = NoSnapshot
    /\ nsCur = NoSnapshot
    /\ result = NoDiff
    /\ stage = "input"
    /\ now = 0
    /\ InitSession
    /\ page = Page0

\* The two captures are normalized one after the other; time passes in between.
NormalizeCaptures ==
    /\ stage = "input"
    /\ now < MaxClock
    /\ nsBase' = normalizeSnapshot(rawBase, now)
    /\ nsCur' = normalizeSnapshot(rawCur, now + 1)
    /\ now' = now + 1
    /\ stage' = "normalized"
    /\ UNCHANGED <<rawBase, rawCur, result>>
    /\ UNCHANGED sessionVars

DiffCaptures ==
    /\ stage = "normalized"
    /\ result' = diffSnapshots(nsBase, nsCur)
    /\ stage' = "diffed"
    /\ UNCHANGED <<rawBase, rawCur, nsBase, nsCur, now>>
    /\ UNCHANGED sessionVars

NextDiff == NormalizeCaptures \/ DiffCaptures

SpecDiff == InitDiff /\ [][NextDiff]_vars

\* The diff harness on attributes and hints: a tree captured twice with the
\* keys of its objects or the elements of an array listed in another order,
\* or a tree of nodes with any hints and its subtree captured alone.
InitAttr ==
    /\ \/ rawBase \in HintTrees /\ rawCur = Node(rawBase.children[1].props, <<>>)
       \/ rawBase \in OrderTrees
            /\ rawCur \in KeyReorderings(rawBase) \cup ArrayReorderings(rawBase)
    /\ nsBase = NoSnapshot
    /\ nsCur = NoSnapshot
    /\ result = NoDiff
    /\ stage = "input"
    /\ now = 0
    /\ InitSession
    /\ page = Page0

SpecAttr == InitAttr /\ [][NextDiff]_vars

(***************************************************************************)
(* Properties of the normalizer and the diff engine (SpecDiff)             *)
(***************************************************************************)
IdsOf(nodes) == {nodes[i].id : i \in 1..Len(nodes)}
Diffed == stage = "diffed"

RECURSIVE CountNodes(_)
RECURSIVE CountForest(_)
CountNodes(node) == 1 + CountForest(node.children)
CountForest(children) ==
    IF Len(children) = 0 THEN 0 ELSE CountNodes(Head(children)) + CountForest(Tail(children))

\* C1 (idempotence): a tree normalized twice, at two different times, and
\* diffed against itself gives empty added, removed and changed lists,
\* whatever its shape and hints, also when several of its nodes carry the
\* same hints.
C1_Idempotence ==
    (Diffed /\ rawBase = rawCur) =>
        result.added = <<>> /\ result.removed = <<>> /\ result.changed = <<>>

\* A tree with two nodes of the same hints and an object-valued attribute
\* has been diffed against itself, the two normalizations bearing different
\* timestamps.
C1_Witness ==
    /\ Diffed
    /\ rawBase = rawCur
    /\ Len(nsBase.nodes) < CountNodes(rawBase)
    /\ \E i \in 1..Len(nsBase.nodes) : Get(nsBase.nodes[i][2].data, "name").t = "object"
    /\ nsBase.capturedAt # nsCur.capturedAt
    /\ ~hasSnapshotChanges(result)

NoHint(node) ==
    /\ ~IsNumber(Get(node.props, "backendDOMNodeId"))
    /\ ~IsNumber(Get(node.props, "nodeId"))
    /\ ~IsString(Get(node.props, "axId"))

\* The attribute data of two raw nodes differ in canonical form.
DataDiffer(a, b) ==
    LET da == sanitizeNodeData(a)
        db == sanitizeNodeData(b)
    IN \E k \in KeySet(da) \cup KeySet(db) :
            stableStringify(Get(da, k)) # stableStringify(Get(db, k))

ChildPath(segs, i) == Join(Append(segs, ToString(i - 1)), ".")

RECURSIVE PlainSwaps(_, _, _)
\* The pairs of paths <<p, q>> such that cur is base with the siblings at p
\* and q exchanged, both without identity hint and of different data.
PlainSwaps(base, cur, segs) ==
    IF base.props # cur.props \/ Len(base.children) # Len(cur.children) THEN {}
    ELSE LET n == Len(base.children)
         IN {<<ChildPath(segs, x[1]), ChildPath(segs, x[2])>> :
                x \in {y \in (1..n) \X (1..n) :
                        /\ y[1] < y[2]
                        /\ cur.children = SwapAt(base.children, y[1], y[2])
                        /\ NoHint(base.children[y[1]])
                        /\ NoHint(base.children[y[2]])
                        /\ DataDiffer(base.children[y[1]], base.children[y[2]])}}
            \cup UNION {IF \A m \in (1..n) \ {k} : base.children[m] = cur.children[m]
                        THEN PlainSwaps(base.children[k], cur.children[k],
                                        Append(segs, ToString(k - 1)))
                        ELSE {} : k \in 1..n}

C9_Presence ==
    Diffed =>
        /\ IdsOf(result.added) = KeySet(nsCur.nodes) \ KeySet(nsBase.nodes)
        /\ IdsOf(result.removed) = KeySet(nsBase.nodes) \ KeySet(nsCur.nodes)
        /\ Cardinality(IdsOf(result.added)) = Len(result.added)
        /\ Cardinality(IdsOf(result.removed)) = Len(result.removed)
        /\ Cardinality(IdsOf(result.changed)) = Len(result.changed)
        /\ IdsOf(result.added) \cap IdsOf(result.removed) = {}
        /\ IdsOf(result.added) \cap IdsOf(result.changed) = {}
        /\ IdsOf(result.removed) \cap IdsOf(result.changed) = {}
        /\ \A i \in 1..Len(result.added) :
                result.added[i] = Get(nsCur.nodes, result.added[i].id)
        /\ \A i \in 1..Len(result.removed) :
                result.removed[i] = Get(nsBase.nodes, result.removed[i].id)

\* A diff with an added, a removed and a changed node.
C9_Witness ==
    /\ Diffed
    /\ Len(result.added) > 0
    /\ Len(result.removed) > 0
    /\ Len(result.changed) > 0

\* The keys on which the data of two normalized nodes differ in canonical form.
DifferingKeys(b, c) ==
    {k \in KeySet(b.data) \cup KeySet(c.data) :
        stableStringify(Get(b.data, k)) # stableStringify(Get(c.data, k))}

\* C10 (minimal diff): an id of both snapshots is in changed exactly when
\* the data of its two nodes differ on a key of the union of their keys; a
\* node of equal data is in none of the lists, whatever its path, parent and
\* children; a change lists the differing keys, each once, with the
\* baseline value as before and the current value as after.
C10_Minimal ==
    Diffed =>
        /\ \A id \in KeySet(nsBase.nodes) \cap KeySet(nsCur.nodes) :
            LET b == Get(nsBase.nodes, id)
                c == Get(nsCur.nodes, id)
            IN /\ id \in IdsOf(result.changed) <=> DifferingKeys(b, c) # {}
               /\ id \notin IdsOf(result.added) \cup IdsOf(result.removed)
        /\ \A i \in 1..Len(result.changed) :
            LET ch == result.changed[i]
                b == Get(nsBase.nodes, ch.id)
                c == Get(nsCur.nodes, ch.id)
            IN /\ ch.id \in KeySet(nsBase.nodes) \cap KeySet(nsCur.nodes)
               /\ {ch.changes[j].property : j \in 1..Len(ch.changes)} = DifferingKeys(b, c)
               /\ Len(ch.changes) = Cardinality(DifferingKeys(b, c))
               /\ \A j \in 1..Len(ch.changes) :
                    /\ ch.changes[j].before = Get(b.data, ch.changes[j].property)
                    /\ ch.changes[j].after = Get(c.data, ch.changes[j].property)

\* One node kept its data while its path and its parent changed and is not
\* reported; another is reported with two differing keys, one of them absent
\* from the baseline.
C10_Witness ==
    /\ Diffed
    /\ \E id \in KeySet(nsBase.nodes) \cap KeySet(nsCur.nodes) :
        /\ Get(nsBase.nodes, id).data = Get(nsCur.nodes, id).data
        /\ Get(nsBase.nodes, id).path # Get(nsCur.nodes, id).path
        /\ Get(nsBase.nodes, id).parentId # Get(nsCur.nodes, id).parentId
        /\ id \notin IdsOf(result.changed)
    /\ \E i \in 1..Len(result.changed) :
        /\ Len(result.changed[i].changes) = 2
        /\ \E j \in 1..2 : result.changed[i].changes[j].before = Undefined

\* The changes reported for the node id, none when it is not in changed.
ChangesOf(id) ==
    IF id \in IdsOf(result.changed)
    THEN (CHOOSE ch \in {result.changed[i] : i \in 1..Len(result.changed)} : ch.id = id).changes
    ELSE <<>>
DetailsOf(id) == {ChangesOf(id)[j] : j \in 1..Len(ChangesOf(id))}

\* C11 (union-key coverage): for a node id of both snapshots, a data key of
\* the current node only is reported in the node's Changed entry with before
\* undefined and after the current value, and a data key of the baseline
\* node only with before the baseline value and after undefined.
C11_UnionKeys ==
    Diffed =>
        \A id \in KeySet(nsBase.nodes) \cap KeySet(nsCur.nodes) :
            LET b == Get(nsBase.nodes, id).data
                c == Get(nsCur.nodes, id).data
            IN /\ \A k \in KeySet(c) \ KeySet(b) :
                    /\ Get(c, k) # Undefined
                    /\ [property |-> k, before |-> Undefined, after |-> Get(c, k)]
                            \in DetailsOf(id)
               /\ \A k \in KeySet(b) \ KeySet(c) :
                    /\ Get(b, k) # Undefined
                    /\ [property |-> k, before |-> Get(b, k), after |-> Undefined]
                            \in DetailsOf(id)

\* One diff reports an attribute that appeared on one node and an attribute
\* that disappeared from another.
C11_Witness ==
    /\ Diffed
    /\ \E id \in IdsOf(result.changed) :
            \E d \in DetailsOf(id) : d.before = Undefined /\ d.after.t = "object"
    /\ \E id \in IdsOf(result.changed) :
            \E d \in DetailsOf(id) : d.after = Undefined /\ d.before = Bool(TRUE)

RECURSIVE SameUpToKeyOrder(_, _)
\* Two values differ at most in the order their objects list their keys.
SameUpToKeyOrder(a, b) ==
    CASE a.t = "object" ->
            /\ b.t = "object"
            /\ Len(a.entries) = Len(b.entries)
            /\ KeySet(a.entries) = KeySet(b.entries)
            /\ \A k \in KeySet(a.entries) :
                    SameUpToKeyOrder(Get(a.entries, k), Get(b.entries, k))
      [] a.t = "array" ->
            /\ b.t = "array"
            /\ Len(a.items) = Len(b.items)
            /\ \A i \in 1..Len(a.items) : SameUpToKeyOrder(a.items[i], b.items[i])
      [] OTHER -> a = b

RECURSIVE TreesSameUpToKeyOrder(_, _)
\* Two raw trees differ at most in the key order of object-valued attributes.
TreesSameUpToKeyOrder(a, b) ==
    /\ Keys(a.props) = Keys(b.props)
    /\ \A i \in 1..Len(a.props) : SameUpToKeyOrder(a.props[i][2], b.props[i][2])
    /\ Len(a.children) = Len(b.children)
    /\ \A i \in 1..Len(a.children) : TreesSameUpToKeyOrder(a.children[i], b.children[i])

RECURSIVE ReorderedArrays(_, _, _)
\* <<id, key, before, after>> for every node of cur that stands where it
\* stood in base and whose array-valued attribute key lists the elements it
\* listed in base in another order.
ReorderedArrays(base, cur, segs) ==
    IF Keys(base.props) # Keys(cur.props) \/ Len(base.children) # Len(cur.children) THEN {}
    ELSE {<<getStableNodeId(cur, Join(segs, ".")), k, Get(base.props, k), Get(cur.props, k)>> :
            k \in {x \in KeySet(cur.props) :
                    /\ Get(base.props, x).t = "array"
                    /\ Get(cur.props, x).t = "array"
                    /\ Get(cur.props, x) \in ArrayOrders(Get(base.props, x))}}
         \cup UNION {ReorderedArrays(base.children[i], cur.children[i],
                                     Append(segs, ToString(i - 1))) :
                        i \in 1..Len(base.children)}

KeyOrderIndependent ==
    (Diffed /\ TreesSameUpToKeyOrder(rawBase, rawCur)) => result.changed = <<>>

\* C12, as claimed: two trees that differ only in the key order of
\* object-valued attributes, at any depth, give an empty changed list; an
\* array attribute whose elements are listed in another order is reported as
\* changed.
C12_KeyOrderArrayOrder ==
    /\ KeyOrderIndependent
    /\ Diffed =>
        \A r \in ReorderedArrays(rawBase, rawCur, <<"0">>) :
            \E d \in DetailsOf(r[1]) : d.property = r[2]

\* C12, amended: two trees that differ only in the key order of
\* object-valued attributes, at any depth, give an empty changed list; an
\* array attribute whose elements are listed in another order is reported as
\* changed exactly when, at some position, the element before and the
\* element after have different canonical texts.
C12_KeyOrderArrayText ==
    /\ KeyOrderIndependent
    /\ Diffed =>
        \A r \in ReorderedArrays(rawBase, rawCur, <<"0">>) :
            (\E d \in DetailsOf(r[1]) : d.property = r[2])
            <=> \E i \in 1..Len(r[3].items) :
                    stableStringify(sanitizeValue(r[3].items[i]))
                        # stableStringify(sanitizeValue(r[4].items[i]))

\* Two captures list the keys of a nested object, of an object inside an
\* array and of an object holding such an array in different orders, and
\* the diff is empty.
C12_Witness ==
    /\ Diffed
    /\ TreesSameUpToKeyOrder(rawBase, rawCur)
    /\ Get(rawCur.props, "live") # Get(rawBase.props, "live")
    /\ Keys(Get(rawCur.children[1].props, "state").entries) = <<"type", "x">>
    /\ Keys(Get(Get(rawCur.children[1].props, "state").entries, "type").entries) = <<"x", "y">>
    /\ Get(Get(rawCur.children[1].props, "state").entries, "x")
            # Get(Get(rawBase.children[1].props, "state").entries, "x")
    /\ ~hasSnapshotChanges(result)

Normalized == stage \in {"normalized", "diffed"}

RECURSIVE RawNodes(_, _)
\* <<path, node>> for every node of a raw tree.
RawNodes(node, segs) ==
    {<<Join(segs, "."), node>>}
    \cup UNION {RawNodes(node.children[i], Append(segs, ToString(i - 1))) :
                    i \in 1..Len(node.children)}

\* Every raw node of tree has its own normalized node in nodes.
OneEntryPerNode(tree, nodes) ==
    /\ Len(nodes) = CountNodes(tree)
    /\ \A r \in RawNodes(tree, <<"0">>) :
            \E i \in 1..Len(nodes) :
                /\ nodes[i][2].path = r[1]
                /\ nodes[i][2].data = sanitizeNodeData(r[2])

\* C13 (no node skipped or merged): the nodes mapping normalizeSnapshot
\* returns has as many entries as the raw tree has nodes, and every raw node
\* is represented by its own normalized node, also when two raw nodes carry
\* the same identity hints.
C13_NoMerge ==
    Normalized =>
        /\ OneEntryPerNode(rawBase, nsBase.nodes)
        /\ OneEntryPerNode(rawCur, nsCur.nodes)

\* The identity hints a raw node carries: a number, a number, a string.
HintsOf(node) ==
    [backend |-> IF IsNumber(Get(node.props, "backendDOMNodeId"))
                    THEN Get(node.props, "backendDOMNodeId") ELSE Undefined,
     node |-> IF IsNumber(Get(node.props, "nodeId")) THEN Get(node.props, "nodeId") ELSE Undefined,
     ax |-> IF IsString(Get(node.props, "axId")) THEN Get(node.props, "axId") ELSE Undefined]
NoHints == [backend |-> Undefined, node |-> Undefined, ax |-> Undefined]

\* The hints of h written one after the other, in the fixed order.
HintText(h) ==
    LET parts == << <<"backend:", h.backend>>, <<"node:", h.node>>, <<"ax:", h.ax>> >>
        present == SelectSeq(parts, LAMBDA x : x[2] # Undefined)
    IN Join([i \in 1..Len(present) |-> present[i][1] \o JsString(present[i][2])], "|")

\* <<id, hints, path>> for every raw node of the two captures.
CapturedIds ==
    {<<getStableNodeId(r[2], r[1]), HintsOf(r[2]), r[1]>> :
        r \in RawNodes(rawBase, <<"0">>) \cup RawNodes(rawCur, <<"0">>)}

\* C16 (stable id): the id of a node is the text of all the hints it
\* carries, in the order backend DOM identifier, node identifier,
\* accessibility identifier, and is "path:" + path exactly when it carries
\* none; two nodes, of one capture or of two, get the same id if and only
\* if they carry the same hints with the same values, or carry none and
\* have the same path.
C16_StableId ==
    Normalized =>
        LET ids == CapturedIds
        IN /\ \A a \in ids :
                /\ a[2] # NoHints => a[1] = HintText(a[2])
                /\ a[2] = NoHints <=> a[1] = "path:" \o a[3]
                /\ \A b \in ids :
                        a[1] = b[1] <=> \/ a[2] # NoHints /\ a[2] = b[2]
                                        \/ a[2] = NoHints /\ b[2] = NoHints /\ a[3] = b[3]
           /\ {a[1] : a \in ids} = KeySet(nsBase.nodes) \cup KeySet(nsCur.nodes)

\* A capture holds a node with all three hints and one that has the first
\* of them only; a node of another capture stands at another path with the
\* hints of the first and got its id.
C16_Witness ==
    /\ Normalized
    /\ \E i \in 1..Len(nsBase.nodes), j \in 1..Len(nsBase.nodes) :
            /\ nsBase.nodes[i][1] = "backend:1|node:NaN|ax:1"
            /\ nsBase.nodes[j][1] = "backend:1"
    /\ Has(nsCur.nodes, "backend:1|node:NaN|ax:1")
    /\ Get(nsCur.nodes, "backend:1|node:NaN|ax:1").path
            # Get(nsBase.nodes, "backend:1|node:NaN|ax:1").path

\* The paths and parents of one normalized snapshot of tree.
PathsAndParents(tree, nodes) ==
    LET rootId == getStableNodeId(tree, "0")
    IN /\ Has(nodes, rootId)
       /\ Get(nodes, rootId).path = "0"
       /\ Get(nodes, rootId).parentId = Undefined
       /\ \A i \in 1..Len(nodes) :
            LET n == nodes[i][2]
            IN nodes[i][1] # rootId =>
                /\ IsString(n.parentId)
                /\ Has(nodes, n.parentId.s)
                /\ \E index \in 0..9 :
                        n.path = Get(nodes, n.parentId.s).path \o "." \o ToString(index)

\* C17 (path and parent assignment): in a normalized snapshot the root has
\* path "0" and no parentId; every other node has the path of its parent
\* followed by "." and an index, and its parentId is a key of nodes; two
\* normalizations of one tree give the same path for the same id.
C17_PathParent ==
    Normalized =>
        /\ PathsAndParents(rawBase, nsBase.nodes)
        /\ PathsAndParents(rawCur, nsCur.nodes)
        /\ rawBase = rawCur =>
                \A id \in KeySet(nsBase.nodes) :
                    Has(nsCur.nodes, id) /\ Get(nsCur.nodes, id).path = Get(nsBase.nodes, id).path

\* The same, for captures in which no two nodes have the same id.
PathParentOfDistinctIds ==
    (/\ Normalized
     /\ Len(nsBase.nodes) = CountNodes(rawBase)
     /\ Len(nsCur.nodes) = CountNodes(rawCur)) => C17_PathParent

(***************************************************************************)
(* Properties of take_change_snapshot (Spec, SpecMoving)                   *)
(***************************************************************************)
\* The step in which invocation p runs from its await to its return.
ResumeStep(p) == pc[p] = "captured" /\ pc'[p] = "done"

SectionLines == {"## Added", "## Removed", "## Changed"}
LinesOf(lines) == {lines[i] : i \in 1..Len(lines)}

\* C3 (auto-baseline creation): a run with a successful capture, the
\* compare key being the baseline key and absent from the store, leaves the
\* store with exactly one new entry, under baselineKey, equal to the
\* normalized capture, and reports the creation and no
\* Added/Removed/Changed section.
C3_AutoBaseline ==
    [][\A p \in Procs :
        (/\ ResumeStep(p)
         /\ snapshot[p].ok
         /\ locals[p].compareKey = locals[p].baselineKey
         /\ locals[p].compareKey \notin DOMAIN store)
        => (/\ DOMAIN store' = DOMAIN store \cup {locals[p].baselineKey}
            /\ \A k \in DOMAIN store : store'[k] = store[k]
            /\ store'[locals[p].baselineKey] = normalizeSnapshot(snapshot[p].root, now)
            /\ response'[p] = <<CreatedLine(locals[p].baselineKey)>>
            /\ LinesOf(response'[p]) \cap SectionLines = {})]_vars

\* A baseline has been created under "a" beside the one under "default".
C3_Witness ==
    \E p \in Procs :
        /\ pc[p] = "done"
        /\ locals[p].baselineKey = "a"
        /\ locals[p].compareKey = "a"
        /\ response[p] = <<CreatedLine("a")>>
        /\ DOMAIN store = {"default", "a"}
        /\ store["a"].nodes = normalizeSnapshot(snapshot[p].root, now).nodes

\* A run with default options against a baseline of the same key that was
\* taken of the page as it is now.
UnchangedRun(p) ==
    /\ ResumeStep(p)
    /\ snapshot[p].ok
    /\ locals[p].compareKey = locals[p].baselineKey
    /\ locals[p].replaceBaseline
    /\ locals[p].baselineKey \in DOMAIN store
    /\ store[locals[p].baselineKey].nodes = normalizeSnapshot(snapshot[p].root, now).nodes

\* C4, as claimed: such a run reports no changes and leaves the stored
\* snapshot identical in its whole content, capturedAt included.
C4_BaselineIdentical ==
    [][\A p \in Procs :
        UnchangedRun(p)
        => (/\ response'[p] = <<NoChangesLine(locals[p].baselineKey)>>
            /\ store'[locals[p].baselineKey] = store[locals[p].baselineKey])]_vars

\* C4, amended: such a run reports no changes and stores a snapshot with
\* the same nodes, stamped with the time of this run.
C4_BaselineSameNodes ==
    [][\A p \in Procs :
        UnchangedRun(p)
        => (/\ response'[p] = <<NoChangesLine(locals[p].baselineKey)>>
            /\ store'[locals[p].baselineKey].nodes = store[locals[p].baselineKey].nodes
            /\ store'[locals[p].baselineKey].capturedAt = now)]_vars

\* A run with default options has reported no changes after the clock advanced.
C4_Witness ==
    \E p \in Procs :
        /\ pc[p] = "done"
        /\ locals[p].compareKey = locals[p].baselineKey
        /\ locals[p].replaceBaseline
        /\ response[p] = <<NoChangesLine(locals[p].baselineKey)>>
        /\ store[locals[p].baselineKey].capturedAt = now
        /\ now > 0

\* C5 (opt-out): a run with replaceBaseline = false leaves the snapshot
\* stored under baselineKey as it was, whatever the store, baselineKey and
\* compareTo.
C5_OptOut ==
    [][\A p \in Procs :
        (/\ ResumeStep(p)
         /\ ~locals[p].replaceBaseline
         /\ locals[p].baselineKey \in DOMAIN store)
        => (/\ locals[p].baselineKey \in DOMAIN store'
            /\ store'[locals[p].baselineKey] = store[locals[p].baselineKey])]_vars

\* C6 (capture failure): a run whose capture returned nothing appends the
\* failure message and nothing else and leaves the store as it was.
C6_CaptureFailure ==
    [][\A p \in Procs :
        (ResumeStep(p) /\ ~snapshot[p].ok)
        => (store' = store /\ response'[p] = <<CaptureFailedLine>>)]_vars

\* A capture failed in a run that would have written under "a", with a
\* baseline under "default" in the store.
C6_Witness ==
    \E p \in Procs :
        /\ pc[p] = "done"
        /\ ~snapshot[p].ok
        /\ response[p] = <<CaptureFailedLine>>
        /\ locals[p].baselineKey = "a"
        /\ DOMAIN store = {"default"}

\* C7 (moving baseline): in a moving-baseline session the store entry of
\* the key is the normalized capture of the last invocation that returned;
\* the first invocation reports the creation, the n-th reports the diff of
\* capture n-1 and capture n, and reports no changes when the two captures
\* are the same.
C7_MovingBaseline ==
    \A p \in Procs :
        LET n == Len(captures)
            key == locals[p].baselineKey
        IN n >= 1 =>
            /\ key \in DOMAIN store
            /\ store[key] = normalizeSnapshot(captures[n], store[key].capturedAt)
            /\ (pc[p] = "done" /\ n = 1) => response[p] = <<CreatedLine(key)>>
            /\ (pc[p] = "done" /\ n >= 2) =>
                /\ response[p] = ReportLines(key,
                        diffSnapshots(normalizeSnapshot(captures[n - 1], 0),
                                      normalizeSnapshot(captures[n], now)))
                /\ captures[n] = captures[n - 1] => response[p] = <<NoChangesLine(key)>>

\* The second invocation reported a change, the third, the page being the
\* same, reports none.
C7_Witness ==
    \E p \in Procs :
        /\ Len(captures) = 3
        /\ pc[p] = "done"
        /\ captures[1] # captures[2]
        /\ captures[2] = captures[3]
        /\ response[p] = <<NoChangesLine(locals[p].baselineKey)>>

\* A parameter that is omitted or blank.
IsBlank(param) ==
    param.t = "undefined" \/ \A i \in 1..Len(param.s) : SubSeq(param.s, i, i) = " "

OnlyDefault(baselines) ==
    [k \in DOMAIN baselines \cap {"default"} |-> baselines[k]]

\* C8 (default key): an invocation whose baselineKey and compareTo are
\* omitted or blank resolves both keys to "default"; its run leaves every
\* other entry of the store as it was, and what it reports and stores is
\* what it would report and store if "default" were the only entry.
C8_DefaultKey ==
    [][\A p \in Procs :
        /\ (pc[p] # "awaiting" /\ pc'[p] = "awaiting")
           => \A b \in {x \in KeyParams : IsBlank(x)}, c \in {x \in CompareParams : IsBlank(x)},
                 r \in ReplaceParams :
                    Invoke(p, b, c, r)
                    => (/\ locals'[p].baselineKey = "default"
                        /\ locals'[p].compareKey = "default")
        /\ (/\ ResumeStep(p)
            /\ locals[p].baselineKey = "default"
            /\ locals[p].compareKey = "default")
           => (/\ DOMAIN store' \ {"default"} = DOMAIN store \ {"default"}
               /\ \A k \in DOMAIN store \ {"default"} : store'[k] = store[k]
               /\ response'[p] = LinesAfter(OnlyDefault(store), locals[p], snapshot[p], now)
               /\ OnlyDefault(store')
                    = StoreAfter(OnlyDefault(store), locals[p], snapshot[p], now))]_vars

\* A run on the default key has reported changes while the store holds a
\* different baseline under "a".
C8_Witness ==
    \E p \in Procs :
        /\ pc[p] = "done"
        /\ locals[p].baselineKey = "default"
        /\ locals[p].compareKey = "default"
        /\ DOMAIN store = {"default", "a"}
        /\ store["a"].nodes # store["default"].nodes
        /\ Len(response[p]) > 1

\* C14 (baselines never expire): whatever the keys, the options and the
\* outcome of the capture, no step of a session takes a key out of the
\* store: a key that has a baseline keeps having one.
C14_NeverExpire ==
    [][DOMAIN store \subseteq DOMAIN store']_vars

\* With baselines under two keys, an invocation on one of them failed to
\* capture after the page changed; both keys still have their baseline.
C14_Witness ==
    \E p \in Procs :
        /\ pc[p] = "done"
        /\ ~snapshot[p].ok
        /\ locals[p].baselineKey = "a"
        /\ DOMAIN store = {"default", "a"}
        /\ store["a"].nodes # normalizeSnapshot(page, now).nodes

\* C18 (frame of the store): a run of the handler changes at most the
\* entry under baselineKey; every other entry, the one under the compare
\* key when it is another key included, is after the run what it was
\* before, and no entry appears under another key; the steps before the
\* await leave the store alone.
C18_StoreFrame ==
    [][\A p \in Procs :
        /\ ResumeStep(p) =>
            /\ DOMAIN store' \subseteq DOMAIN store \cup {locals[p].baselineKey}
            /\ \A k \in DOMAIN store \ {locals[p].baselineKey} :
                    k \in DOMAIN store' /\ store'[k] = store[k]
            /\ (/\ locals[p].compareKey # locals[p].baselineKey
                /\ locals[p].compareKey \in DOMAIN store)
               => store'[locals[p].compareKey] = store[locals[p].compareKey]
        /\ ~ResumeStep(p) => store' = store]_vars

\* A run compared the page with the baseline of another key, found changes
\* and stored the capture under its own key, over an older baseline; the
\* baseline compared against is still there.
C18_Witness ==
    \E p \in Procs :
        /\ pc[p] = "done"
        /\ locals[p].baselineKey = "default"
        /\ locals[p].compareKey = "a"
        /\ DOMAIN store = {"default", "a"}
        /\ Len(response[p]) > 1
        /\ store["default"].nodes = normalizeSnapshot(snapshot[p].root, now).nodes
        /\ store["a"].nodes # store["default"].nodes
        /\ store["a"].capturedAt < store["default"].capturedAt

\* The lines of a report of a comparison, with or without changes.
IsDiffReport(lines, compareKey) ==
    \/ lines = <<NoChangesLine(compareKey)>>
    \/ Len(lines) > 1
    \/ LinesOf(lines) \cap SectionLines # {}

\* C19, as claimed: in a session whose invocations all name the same
\* baseline key and the same, other, compare key that has no baseline, every
\* invocation that returned has stored its capture under baselineKey, left
\* the compare key absent and reported that no baseline was found.
C19_AlwaysNoBaseline ==
    \A p \in Procs :
        pc[p] = "done" =>
            /\ locals[p].compareKey \notin DOMAIN store
            /\ response[p] = <<CreatedLine(locals[p].compareKey)>>
            /\ locals[p].baselineKey \in DOMAIN store
            /\ store[locals[p].baselineKey].nodes
                    = normalizeSnapshot(snapshot[p].root, now).nodes

\* C19, amended: in such a session the compare key stays absent and no
\* invocation reports a comparison; an invocation whose capture succeeded
\* has stored the capture under baselineKey and reported that no baseline
\* was found, one whose capture failed has reported the failure.
C19_NoBaselineUnlessFailed ==
    \A p \in Procs :
        /\ pc[p] # "idle" => locals[p].compareKey \notin DOMAIN store
        /\ pc[p] = "done" =>
            /\ ~IsDiffReport(response[p], locals[p].compareKey)
            /\ snapshot[p].ok =>
                /\ response[p] = <<CreatedLine(locals[p].compareKey)>>
                /\ locals[p].baselineKey \in DOMAIN store
                /\ store[locals[p].baselineKey].nodes
                        = normalizeSnapshot(snapshot[p].root, now).nodes
            /\ ~snapshot[p].ok => response[p] = <<CaptureFailedLine>>

\* The third invocation of such a session found no baseline under its
\* compare key, the first having captured another page and the second
\* having failed to capture.
C19_Witness ==
    \E p \in Procs :
        /\ pc[p] = "done"
        /\ snapshot[p].ok
        /\ Len(captures) = 3
        /\ captures[1] \notin {EmptyTree, captures[3]}
        /\ captures[2] = EmptyTree
        /\ response[p] = <<CreatedLine(locals[p].compareKey)>>
        /\ DOMAIN store = {locals[p].baselineKey}

(***************************************************************************)
(* Properties of two invocations in flight (SpecPair)                      *)
(***************************************************************************)
\* Invocation q reads or writes the store in this step.
StoreAccess(q) ==
    \/ pc[q] = "captured" /\ pc'[q] = "looked"
    \/ pc[q] = "looked" /\ pc'[q] = "done"

\* C15 (the capture is the only suspension point): while an invocation is
\* between its lookup of the baseline and its last write to the store, no
\* other invocation takes a step, so none reads or writes the store, and
\* the baseline it looked up is still the one in the store when it writes.
C15_OnlyAwaitSuspends ==
    [][\A p \in Pair :
        /\ pc[p] = "looked" =>
                \A q \in Pair \ {p} :
                    /\ pc'[q] = pc[q]
                    /\ ~StoreAccess(q)
                    /\ locals'[q] = locals[q]
                    /\ response'[q] = response[q]
        /\ (pc[p] = "looked" /\ store' # store) => pc'[p] = "done"
        /\ (pc[p] = "looked" /\ pc'[p] = "done") =>
                locals[p].baseline = getAccessibilityBaseline(store, locals[p].compareKey)]_vars

\* One invocation has looked the baseline up and not written yet while the
\* capture of another, on the same key, has settled and waits to resume.
C15_Witness ==
    \E p \in Pair, q \in Pair :
        /\ pc[p] = "looked"
        /\ pc[q] = "captured"
        /\ snapshot[q].ok
        /\ locals[q].compareKey = locals[p].baselineKey
        /\ locals[q].baselineKey = locals[p].compareKey

\* The session was two calls, made one after the other before either
\* returned, naming the same key and no compare key; both captures
\* succeeded and both invocations have returned.
RacedOnOneKey ==
    /\ Len(captures) = 4
    /\ {captures[1], captures[2]} = {Called(1), Called(2)}
    /\ \A p \in Pair :
            /\ pc[p] = "done"
            /\ snapshot[p].ok
            /\ locals[p].compareKey = locals[p].baselineKey
    /\ locals[1].baselineKey = locals[2].baselineKey

\* C20 (two invocations racing on a key without baseline): whatever the
\* interleaving, the invocation that resumes first reports that a baseline
\* was created, and the other one, although no baseline existed when it was
\* called, reports the comparison of its capture with the snapshot the
\* first one stored; the store ends with the capture of the second, or of
\* the first if the second opted out of replacing.
C20_OneCreatesOtherDiffs ==
    RacedOnOneKey =>
        LET first == captures[3][2]
            second == captures[4][2]
            key == locals[first].baselineKey
            stored == normalizeSnapshot(snapshot[first].root, now)
            compared == normalizeSnapshot(snapshot[second].root, now)
        IN /\ first # second
           /\ response[first] = <<CreatedLine(key)>>
           /\ response[second] = ReportLines(key, diffSnapshots(stored, compared))
           /\ response[second] # <<CreatedLine(key)>>
           /\ store[key] = IF locals[second].replaceBaseline THEN compared ELSE stored

\* Two invocations raced on the key "a"; the one called second resumed
\* first and created the baseline, the one called first reported changes
\* against it.
C20_Witness ==
    /\ RacedOnOneKey
    /\ locals[1].baselineKey = "a"
    /\ captures[2] = Called(captures[3][2])
    /\ captures[1] = Called(captures[4][2])
    /\ response[captures[3][2]] = <<CreatedLine("a")>>
    /\ Len(response[captures[4][2]]) > 1

====
